---- MODULE Spec2Model ----
(***************************************************************************)
(* Fare-Hunter: the alternate drop-off discovery engine of the page        *)
(* component (three-tier variant): the build-routes effect, the candidates *)
(* effect with its Strict / Relaxed / Closest passes, and the React state  *)
(* they read and write.                                                    *)
(*                                                                         *)
(* Units.  Coordinates are integers in 1e-7 degree, so that toFixed(5) and *)
(* toFixed(6) are real roundings.  Drive distances are in centimetres and  *)
(* the catalogue holds whole miles only (1 mile = 160934 cm), durations    *)
(* are in seconds and multiples of 20, so that the fare arithmetic is      *)
(* exact.  Money is in 1e-5 USD.  The surge proxy is in thousandths.       *)
(* Radial (great-circle) distances are in metres.                          *)
(***************************************************************************)
EXTENDS Integers, Sequences, FiniteSets, TLC

VARIABLES pickup, drop, radiusM, showRegular, showAlternates,
          regularRoutes, altRoutes, surgeProxy, candidates,
          routeJobs, candJobs, mount, userOps, lastEvent, calls

vars == <<pickup, drop, radiusM, showRegular, showAlternates,
          regularRoutes, altRoutes, surgeProxy, candidates,
          routeJobs, candJobs, mount, userOps, lastEvent, calls>>

\* ---------------------------------------------------------------- bounds
\* number of user inputs (pick a place, move the slider, tick a box) explored
MaxUserOps == 1
\* number of successive fare-model calls explored
MaxCalls == 2

\* ------------------------------------------------------ tuning constants
SAMPLE_COUNT == 16
MIN_SUGGESTIONS == 2
\* variant with a cap one larger
MAX_SUGGESTIONS_PLUS == 2 + 3

MAX_SUGGESTIONS == 4
ALT_MAX == 3
REG_MAX == 2
\* "radial < 12": the minimum separation from the exact final point, metres
MIN_SEPARATION == 12
\* useState<number>(400)
DEFAULT_RADIUS == 400
\* per-route cap of the strict pass ("<= 2")
PER_ROUTE_CAP == 2

\* a LatLng | null state that holds null
NULL == [none |-> TRUE]

Min(a, b) == IF a < b THEN a ELSE b
Max(a, b) == IF a > b THEN a ELSE b

\* Math.round of the non-negative quotient num/den: floor(num/den + 1/2)
RoundDiv(num, den) == (2 * num + den) \div (2 * den)

\* Number.prototype.toFixed(d) of a coordinate held in 1e-7 degree: the
\* nearest multiple of 10^(7-d), ties away from zero, sign kept.
toFixed(x, unit) ==
  IF x >= 0 THEN (2 * x + unit) \div (2 * unit)
            ELSE 0 - ((2 * (0 - x) + unit) \div (2 * unit))

\* `${lat.toFixed(6)},${lng.toFixed(6)}`
Key6(p) == <<toFixed(p.lat, 10), toFixed(p.lng, 10)>>
\* `${p.lat.toFixed(5)},${p.lng.toFixed(5)}`
Key5(p) == <<toFixed(p.lat, 100), toFixed(p.lng, 100)>>

\* ------------------------------------------------------------- geography
Pt(lat, lng) == [lat |-> lat, lng |-> lng]

P1 == Pt(302500000, -977500000)
P2 == Pt(302400000, -977600000)
D1 == Pt(302862000, -977394000)
D2 == Pt(302950000, -977300000)
D3 == Pt(303000000, -977200000)
\* what the place search resolves 'Lark Austin' and 'UT Austin Main Building' to
DefaultPickup == P1
DefaultDrop == D1
Pickups == {P1, P2}
Drops == {D1, D2}

\* points on the meridian of D1, south of it
pNear  == Pt(302861550, -977394000)
pEdge  == Pt(302860921, -977394000)
pIn    == Pt(302853007, -977394000)
pMid   == Pt(302844014, -977394000)
pTwinA == Pt(302835049, -977394000)
pTwinB == Pt(302835051, -977394000)
pRim   == Pt(302826027, -977394000)
pFar   == Pt(302808040, -977394000)
pUp    == Pt(302600000, -977394000)
\* a point near D2
qMid   == Pt(302932014, -977300000)
\* a point near D3
rMid   == Pt(302982014, -977200000)

\* haversineMeters(a, b): the great-circle distance in metres.  Its value is
\* floating-point trigonometry; the model tabulates it for the pairs of the
\* catalogue (a point of a route tail and a destination), boundary values
\* (exactly the minimum separation, exactly the default radius) included.
haversineMeters(a, b) ==
  IF a = b THEN 0
  ELSE IF b = D1 THEN
    CASE a = pNear  -> 5
      [] a = pEdge  -> 12
      [] a = pIn    -> 100
      [] a = pMid   -> 200
      [] a = pTwinA -> 300
      [] a = pTwinB -> 300
      [] a = pRim   -> 400
      [] a = pFar   -> 600
      [] a = qMid   -> 1200
      [] OTHER      -> 5000
  ELSE IF b = D2 THEN
    CASE a = qMid   -> 200
      [] a = pMid   -> 1200
      [] OTHER      -> 5000
  ELSE IF b = D3 THEN
    CASE a = rMid   -> 200
      [] OTHER      -> 5000
  ELSE 5000

\* Math.round(m / speedMps / 60) with speedMps = 1.33
metersToMinWalk(m) == RoundDiv(m * 100, 7980)

\* ---------------------------------------------------------- zone penalties
ZONES == <<
  [name |-> "Downtown", penaltyUSD |-> 75000,
   box |-> [minLat |-> 302600000, maxLat |-> 302750000,
            minLng |-> -977530000, maxLng |-> -977340000]],
  [name |-> "Airport", penaltyUSD |-> 125000,
   box |-> [minLat |-> 301870000, maxLat |-> 302170000,
            minLng |-> -977060000, maxLng |-> -976480000]] >>

\* variant with open edges
inBoxOpen(p, b) ==
  p.lat > b.minLat /\ p.lat < b.maxLat /\ p.lng > b.minLng /\ p.lng < b.maxLng

inBox(p, b) ==
  p.lat >= b.minLat /\ p.lat <= b.maxLat /\ p.lng >= b.minLng /\ p.lng <= b.maxLng

RECURSIVE ZoneSum(_, _)
ZoneSum(p, i) ==
  IF i > Len(ZONES) THEN 0
  ELSE (IF inBox(p, ZONES[i].box) THEN ZONES[i].penaltyUSD ELSE 0) + ZoneSum(p, i + 1)

zonePenaltyUSD(p) == ZoneSum(p, 1)

\* ------------------------------------------------------------ price model
CM_PER_MILE == 160934

modeledPriceUSD(distance_cm, duration_s, surge, penaltyUSD) ==
  LET miles  == distance_cm \div CM_PER_MILE
      \* base + perMile * miles + perMin * mins + service, in 1e-5 USD
      sum    == 225000 + 150000 * miles + 550 * duration_s + 120000
      est    == (sum \div 1000) * surge + penaltyUSD
      center == Max(500000, est)
  IN [low |-> Max(450000, (center * 9) \div 10),
      high |-> (center * 112) \div 100,
      center |-> center]

\* --------------------------------------------------------- tail sampling
\* TAIL_FRACTION = 0.22, held in hundredths
TAIL_FRACTION == 22

LatLngOf(c) == Pt(c[2], c[1])

\* "dedupe close": keep the first point of every toFixed(5) key
RECURSIVE UniqKey5(_, _, _)
UniqKey5(out, i, seen) ==
  IF i > Len(out) THEN <<>>
  ELSE IF Key5(out[i]) \in seen THEN UniqKey5(out, i + 1, seen)
  ELSE <<out[i]>> \o UniqKey5(out, i + 1, seen \cup {Key5(out[i])})

\* sampleTail(coords, count, fraction).  The result is [threw, pts]: threw
\* is TRUE when slice[idx] is undefined and its destructuring raises a
\* TypeError (the slice is empty and idx is -1).
sampleTail(coords, count, fraction) ==
  IF Len(coords) = 0 THEN [threw |-> FALSE, pts |-> <<>>]
  ELSE
    LET n        == Len(coords)
        startIdx == Max(0, ((n * (100 - fraction)) \div 100) - 1)
        slice    == SubSeq(coords, startIdx + 1, n - 1)
        idx(i)   == Min(Len(slice) - 1, (i * (Len(slice) - 1)) \div (count + 1))
        bad      == \E i \in 1..count : idx(i) < 0 \/ idx(i) >= Len(slice)
        out      == [i \in 1..count |-> LatLngOf(slice[idx(i) + 1])]
    IN IF bad THEN [threw |-> TRUE, pts |-> <<>>]
       ELSE [threw |-> FALSE, pts |-> UniqKey5(out, 1, {})]

\* --------------------------------------------- the directions provider
\* A provider route {distance, duration, coords}; coords are [lng, lat].
Geo(p) == <<p.lng, p.lat>>
Rt(miles, secs, coords) ==
  [distance |-> miles * CM_PER_MILE, duration |-> secs, coords |-> coords]

\* geometries: two points (one sample), ten points (two samples), fourteen
\* points (three samples), one point
Tail1(a, d)    == <<Geo(a), Geo(d)>>
Tail3(a, b, c, d) == <<Geo(pUp), Geo(pUp), Geo(pUp), Geo(pUp), Geo(pUp), Geo(pUp),
                       Geo(pUp), Geo(pUp), Geo(pUp), Geo(a), Geo(b), Geo(c),
                       Geo(pUp), Geo(d)>>
Tail2(a, b, d) == <<Geo(pUp), Geo(pUp), Geo(pUp), Geo(pUp), Geo(pUp), Geo(pUp),
                    Geo(a), Geo(b), Geo(pUp), Geo(d)>>

\* Answers of one to seven routes for the pair (P1, D3), as the durations
\* of the routes in provider order: unsorted, with equal durations, with
\* more routes than REG_MAX + ALT_MAX.
WideDurations ==
  {<<a>> : a \in {1500, 1520, 1600}}
  \cup {<<a, b>> : a \in {1500, 1520, 1600}, b \in {1500, 1520, 1600}}
  \cup {<<a, b, c>> : a \in {1500, 1520, 1600}, b \in {1500, 1520, 1600},
                      c \in {1500, 1520, 1600}}
  \cup { <<1520, 1600, 1500, 1700>>,
         <<1700, 1500, 1600, 1520, 1820>>,
         <<1800, 1700, 1500, 1600, 1520, 1900>>,
         <<1500, 1600, 1500, 1600, 1500, 1600, 1500>> }

\* The i-th route of an answer is 9 + i miles long; the tail of a lone
\* route passes 200 m from D3, the others stay out of range.
WideRouteLists ==
  { [i \in 1..Len(ds) |->
       Rt(9 + i, ds[i], Tail1(IF Len(ds) = 1 THEN rMid ELSE pUp, D3))] :
      ds \in WideDurations }

\* What an alternatives query of the reactive page can return, per
\* destination: lists of provider routes in provider order.
RouteListsOf(d) ==
  IF d = D1 THEN
    { <<Rt(10, 1500, Tail1(pMid, D1))>>,
      <<Rt(10, 1500, Tail1(pRim, D1))>> }
  ELSE IF d = D3 THEN WideRouteLists
  ELSE
    { <<Rt(10, 1500, Tail1(qMid, D2))>> }

\* Route lists of the single-run specification: up to three provider routes,
\* tails with points below the minimum separation, on both edges of the
\* radius, beyond it, shared between routes and equal at six decimals; a
\* route whose tail gives three points in range; a fastest route that is
\* not the cheapest.
PipeRouteLists ==
  { <<Rt(10, 1500, Tail2(pMid, pTwinA, D1)),
      Rt(10, 1520, Tail2(pMid, pTwinB, D1)),
      Rt(11, 1600, Tail2(pEdge, pRim, D1))>>,
    <<Rt(10, 1500, Tail2(pNear, pEdge, D1)),
      Rt(10, 1520, Tail2(pRim, pFar, D1))>>,
    <<Rt(10, 1500, Tail2(pTwinA, pTwinB, D1))>>,
    <<Rt(11, 1600, Tail1(pMid, D1)),
      Rt(10, 1500, Tail1(pFar, D1)),
      Rt(12, 1700, Tail1(pRim, D1))>>,
    <<Rt(9, 1300, Tail3(pMid, pIn, pTwinA, D1))>>,
    <<Rt(12, 1500, Tail1(pMid, D1)),
      Rt(8, 1520, Tail1(pRim, D1))>>,
    <<Rt(10, 1500, <<Geo(D1)>>)>> }

\* What the free-flow ('driving') query can return as its first duration.
FreeDurations == {1250}
\* for the pair (P1, D3) also a duration far below and one above the
\* traffic-aware ones
FreeDurationsOf(d) == IF d = D3 THEN {1000, 1250, 2000} ELSE FreeDurations

\* mapboxDrive(pickup, p): the {distance, duration} a successful call can
\* return (traffic makes the answer for one pair vary between calls).
Drv(miles, secs) == [distance |-> miles * CM_PER_MILE, duration |-> secs]
DriveStatsOf(pu, p) ==
  CASE p = pMid   -> {Drv(8, 1200)}
    [] p = pTwinA -> {Drv(8, 1220), Drv(10, 1500)}
    [] p = pTwinB -> {Drv(8, 1240)}
    [] p = pEdge  -> {Drv(9, 1400)}
    [] p = pRim   -> {Drv(7, 1100)}
    [] p = pFar   -> {Drv(7, 1000)}
    [] OTHER      -> {Drv(8, 1200)}

\* mapboxWalk(p, drop): the durations a successful call can return.  The
\* footpath from pRim is a long detour; elsewhere it is the straight line.
WalkDurationsOf(p, d) ==
  CASE p = pRim -> {1200}
    [] OTHER    -> {(haversineMeters(p, d) * 100) \div 133}

\* The outcome of one provider call: the HTTP status is an error (the helper
\* returns null), fetch rejects (the helper throws), the provider has no
\* route (r?.[0] is undefined), or a first route.
HTTP_ERROR == [kind |-> "httpError"]
THROWN == [kind |-> "thrown"]
NO_ROUTE == [kind |-> "noRoute"]
Failures == {HTTP_ERROR, THROWN, NO_ROUTE}
Ok(v) == [kind |-> "ok", v |-> v]

\* ------------------------------------------------------------- sorting
\* Array.prototype.sort with a comparator (stable).  The comparator is given
\* as the set `before` of the pairs <<a, b>> of elements for which it returns
\* a negative number.
Pairs(s) == {s[k] : k \in 1..Len(s)} \X {s[k] : k \in 1..Len(s)}

SortBy(s, before) ==
  LET Insert(sorted, x) ==
        LET later == {k \in 1..Len(sorted) : <<x, sorted[k]>> \in before}
            at    == IF later = {} THEN Len(sorted) + 1
                     ELSE CHOOSE k \in later : \A m \in later : k <= m
        IN SubSeq(sorted, 1, at - 1) \o <<x>> \o SubSeq(sorted, at, Len(sorted))
      f[n \in 0..Len(s)] == IF n = 0 THEN <<>> ELSE Insert(f[n - 1], s[n])
  IN f[Len(s)]

\* (a, b) => a.duration - b.duration
ByDuration(routes) == {c \in Pairs(routes) : c[1].duration < c[2].duration}

\* ------------------------------------------------ the candidates effect
\* thresholds, factors in hundredths, money in 1e-5 USD
DIST_FACTOR == 88
TIME_FACTOR == 88
PCT_IMPROVE == 12
ABS_IMPROVE_MIN == 175000
RELAX_DIST == 97
RELAX_TIME == 97

Labels(routes) == [i \in 1..Len(routes) |-> routes[i].label]

\* zonePenaltyUSD({lat: coords.at(-1)?.[1] ?? 0, lng: coords.at(-1)?.[0] ?? 0})
EndPenalty(r) ==
  IF Len(r.coords) = 0 THEN zonePenaltyUSD(Pt(0, 0))
  ELSE zonePenaltyUSD(LatLngOf(r.coords[Len(r.coords)]))

CandPrice(c, surge) ==
  modeledPriceUSD(c.drive.distance_m, c.drive.duration_s, surge, zonePenaltyUSD(c.drop)).center

\* quality tie-break a.drive.distance_m * 1.5 + a.drive.duration_s, times 200
Quality(c) == 3 * c.drive.distance_m + 200 * c.drive.duration_s

\* strictAll.sort: savings descending, then quality ascending
StrictBefore(a, b, bestPrice, surge) ==
  LET aSave == bestPrice - CandPrice(a, surge)
      bSave == bestPrice - CandPrice(b, surge)
  IN IF bSave # aSave THEN bSave < aSave ELSE Quality(a) < Quality(b)

\* relaxedAll.sort: modeled price ascending
RelaxedBefore(a, b, surge) == CandPrice(a, surge) < CandPrice(b, surge)

\* variant ordering the closest pass by price alone
ClosestBeforeByPrice(a, b, d, surge) ==
  CandPrice(a, surge) < CandPrice(b, surge)

\* closestAll.sort: radial distance ascending, then modeled price
ClosestBefore(a, b, d, surge) ==
  LET ra == haversineMeters(a.drop, d)
      rb == haversineMeters(b.drop, d)
  IN IF ra # rb THEN ra < rb ELSE CandPrice(a, surge) < CandPrice(b, surge)

\* "cap strict: at most 2 per route & MAX_SUGGESTIONS total"
RECURSIVE CapStrictFrom(_, _, _, _)
CapStrictFrom(all, i, perRoute, capped) ==
  IF i > Len(all) THEN capped
  ELSE
    LET c     == all[i]
        n     == (IF c.routeIdx \in DOMAIN perRoute THEN perRoute[c.routeIdx] ELSE 0) + 1
        per2  == [l \in DOMAIN perRoute \cup {c.routeIdx} |->
                    IF l = c.routeIdx THEN n ELSE perRoute[l]]
        cap2  == IF n <= PER_ROUTE_CAP THEN Append(capped, c) ELSE capped
    IN IF Len(cap2) >= MAX_SUGGESTIONS THEN cap2
       ELSE CapStrictFrom(all, i + 1, per2, cap2)

CapStrict(strictAll) == CapStrictFrom(strictAll, 1, <<>>, <<>>)

\* "de-dup vs strict, cap to fill": append the candidates whose toFixed(6)
\* key is new, until the list holds `limit` of them
RECURSIVE MergeFrom(_, _, _, _)
MergeFrom(results, all, i, limit) ==
  IF i > Len(all) THEN results
  ELSE
    LET have == {Key6(results[k].drop) : k \in 1..Len(results)}
    IN IF Key6(all[i].drop) \in have THEN MergeFrom(results, all, i + 1, limit)
       ELSE LET r2 == Append(results, all[i])
            IN IF Len(r2) >= limit THEN r2 ELSE MergeFrom(r2, all, i + 1, limit)

MergeRelaxed(results, relaxedAll) ==
  MergeFrom(results, relaxedAll, 1, Max(MIN_SUGGESTIONS, MAX_SUGGESTIONS))

\* variant in which the closest pass starts its own list
MergeClosestFresh(results, closestAll) ==
  MergeFrom(<<>>, closestAll, 1, MIN_SUGGESTIONS)

MergeClosest(results, closestAll) ==
  MergeFrom(results, closestAll, 1, MIN_SUGGESTIONS)

\* results.slice(0, MAX_SUGGESTIONS)
FinalCap(results) == SubSeq(results, 1, Min(Len(results), MAX_SUGGESTIONS))

\* One run of the candidates effect (the async function of one effect
\* instance).  It holds the values the closure captured at its render and
\* its locals; `alive` is the flag its cleanup clears.  pc is the provider
\* call it awaits ("walk", "drive"), or where it ended ("commit": it reached
\* `if (alive) setCandidates(results)`; "threw": an exception left it).
Cand(p, walkMin, drv, label, surge, reason) ==
  [drop |-> p, walkMin |-> walkMin,
   drive |-> [distance_m |-> drv.distance, duration_s |-> drv.duration],
   routeIdx |-> label, surge |-> surge, reason |-> reason]

TailOf(r) == sampleTail(r.coords, SAMPLE_COUNT, TAIL_FRACTION)

\* variant without the radius cap: only the separation floor is tested
RadialOKNoCap(p, d, radius) ==
  LET radial == haversineMeters(p, d)
  IN ~(radial < MIN_SEPARATION)

\* "if (radial > radiusM || radial < 12) continue"
RadialOK(p, d, radius) ==
  LET radial == haversineMeters(p, d)
  IN ~(radial > radius \/ radial < MIN_SEPARATION)

\* the point the run is at
CurRoute(j) == j.visible[j.ri]
CurPoint(j) == j.tailPts[j.pi]

\* variant without the straight-line estimate
WalkMinOfRouteOnly(j, outcome) ==
  IF outcome.kind = "ok" THEN RoundDiv(outcome.v, 60) ELSE 0

\* the walk minutes of the point: Math.round(wk.duration / 60), or the
\* straight-line estimate when the walking query gave nothing
WalkMinOf(j, outcome) ==
  IF outcome.kind = "ok" THEN RoundDiv(outcome.v, 60)
  ELSE metersToMinWalk(haversineMeters(CurPoint(j), j.drop))

\* the thresholds of the strict pass
StrictThresholds ==
  [dist |-> DIST_FACTOR, time |-> TIME_FACTOR, pct |-> PCT_IMPROVE, abs |-> ABS_IMPROVE_MIN]

\* variant whose distance test is turned around
StrictGateInverted(r, p, drv, bestPrice, surge, th) ==
  LET distOK    == 100 * drv.distance >= th.dist * r.distance
      timeOK    == 100 * drv.duration <= th.time * r.duration
      candPrice == modeledPriceUSD(drv.distance, drv.duration, surge,
                                   zonePenaltyUSD(p)).center
      absImprove == bestPrice - candPrice
  IN /\ distOK /\ timeOK
     /\ ~(absImprove < th.abs)
     /\ ~(100 * absImprove < th.pct * bestPrice)

\* the strict gates for the drive drv to point p of route r, under the
\* thresholds th: distOK, timeOK, the absolute and the relative improvement
StrictGate(r, p, drv, bestPrice, surge, th) ==
  LET distOK    == 100 * drv.distance <= th.dist * r.distance
      timeOK    == 100 * drv.duration <= th.time * r.duration
      candPrice == modeledPriceUSD(drv.distance, drv.duration, surge,
                                   zonePenaltyUSD(p)).center
      absImprove == bestPrice - candPrice
  IN /\ distOK /\ timeOK
     /\ ~(absImprove < th.abs)
     /\ ~(100 * absImprove < th.pct * bestPrice)

\* the gates between a driving result and the push of the pass
StrictAdmits(j, drv) ==
  StrictGate(CurRoute(j), CurPoint(j), drv, j.bestPrice, j.surgeProxy, StrictThresholds)

\* variant of the relaxed pass that keeps the price conditions of the
\* strict pass
RelaxedAdmitsPriced(j, drv) ==
  StrictGate(CurRoute(j), CurPoint(j), drv, j.bestPrice, j.surgeProxy,
             [StrictThresholds EXCEPT !.dist = RELAX_DIST, !.time = RELAX_TIME])

RelaxedAdmits(j, drv) ==
  LET r == CurRoute(j)
  IN /\ 100 * drv.distance <= RELAX_DIST * r.distance
     /\ 100 * drv.duration <= RELAX_TIME * r.duration

\* variant of the closest pass that keeps the factors of the relaxed pass
ClosestAdmitsWithin(j, drv) == RelaxedAdmits(j, drv)

ClosestAdmits(j, drv) == TRUE

Admits(j, drv) ==
  CASE j.tier = "strict"  -> StrictAdmits(j, drv)
    [] j.tier = "relaxed" -> RelaxedAdmits(j, drv)
    [] j.tier = "closest" -> ClosestAdmits(j, drv)

ReasonOf(tier) == IF tier = "strict" THEN "strict" ELSE "fallback"

\* the async function is left at pc: the locals of its loops are gone
Left(j, pc) ==
  [j EXCEPT !.pc = pc, !.tier = "strict", !.ri = 1, !.pi = 1, !.walkMin = 0, !.wk = "",
            !.acc = <<>>, !.tried = <<>>, !.failed = {}, !.tailPts = <<>>]

\* an exception leaves the run
Threw(j) == Left([j EXCEPT !.results = <<>>, !.passes = <<>>], "threw")

\* the end of the run: final hard cap, then the guarded commit
Finish(j) == Left([j EXCEPT !.results = FinalCap(@)], "commit")

RECURSIVE EnterRoute(_)

\* the head of a pass: "for (const r of visible)" from the first route
StartTier(j, tier) ==
  EnterRoute([j EXCEPT !.tier = tier, !.ri = 1, !.acc = <<>>, !.tried = <<>>,
                       !.failed = {}])

\* after the closest pass (or instead of it)
AfterClosest(j) == Finish(j)

\* the closest pass, "if (results.length < MIN_SUGGESTIONS)"
AfterRelaxed(j) ==
  IF Len(j.results) < MIN_SUGGESTIONS THEN StartTier(j, "closest")
  ELSE AfterClosest(j)

\* variant that runs the relaxed pass whatever the strict pass found
AfterStrictAlways(j) == StartTier(j, "relaxed")

\* the relaxed pass, "if (results.length < MIN_SUGGESTIONS)"
AfterStrict(j) ==
  IF Len(j.results) < MIN_SUGGESTIONS THEN StartTier(j, "relaxed")
  ELSE AfterRelaxed(j)

\* what a pass did, kept for the record of the run: the points whose
\* driving query gave a route (as the candidates they would make, in the
\* order of the loops), the points whose driving query gave none (with the
\* label of their route), the ones it admitted, how many and which, and the
\* result list after its merge (and its length)
Pass(tier, tried, failed, all, results) ==
  [tier |-> tier, tried |-> tried, failed |-> failed, all |-> all, n |-> Len(all),
   drops |-> {all[k].drop : k \in 1..Len(all)},
   after |-> Len(results), kept |-> results]

Merged(j, results) ==
  [j EXCEPT !.results = results,
            !.passes = Append(@, Pass(j.tier, j.tried, j.failed, j.acc, results))]

\* the loops of a pass are over: sort what it collected and merge it
EndTier(j) ==
  CASE j.tier = "strict" ->
         LET StrictCmp == {c \in Pairs(j.acc) :
                             StrictBefore(c[1], c[2], j.bestPrice, j.surgeProxy)}
         IN AfterStrict(Merged(j, CapStrict(SortBy(j.acc, StrictCmp))))
    [] j.tier = "relaxed" ->
         LET RelaxedCmp == {c \in Pairs(j.acc) : RelaxedBefore(c[1], c[2], j.surgeProxy)}
         IN AfterRelaxed(Merged(j, MergeRelaxed(j.results, SortBy(j.acc, RelaxedCmp))))
    [] j.tier = "closest" ->
         LET ClosestCmp == {c \in Pairs(j.acc) :
                              ClosestBefore(c[1], c[2], j.drop, j.surgeProxy)}
         IN AfterClosest(Merged(j, MergeClosest(j.results, SortBy(j.acc, ClosestCmp))))

\* Run the synchronous code from the head of the point loop, at point pi of
\* the sampled tail, to the next provider call or to the end of the run.
RECURSIVE Seek(_)
Seek(j) ==
  IF j.pi > Len(j.tailPts) THEN EnterRoute([j EXCEPT !.ri = @ + 1])
  ELSE IF ~RadialOK(j.tailPts[j.pi], j.drop, j.radiusM) THEN Seek([j EXCEPT !.pi = @ + 1])
  ELSE [j EXCEPT !.pc = "walk"]

\* the head of the route loop at route ri: sample its tail (sampleTail may
\* throw), then the point loop
EnterRoute(j) ==
  IF j.ri > Len(j.visible) THEN EndTier(j)
  ELSE LET tail == TailOf(CurRoute(j))
       IN IF tail.threw THEN Threw(j)
          ELSE Seek([j EXCEPT !.tailPts = tail.pts, !.pi = 1])

\* the React state a render sees, as one record
StateRec(pu, dr, rad, sReg, sAlt, regs, alts, surge) ==
  [pickup |-> pu, drop |-> dr, radiusM |-> rad, showRegular |-> sReg,
   showAlternates |-> sAlt, regularRoutes |-> regs, altRoutes |-> alts,
   surgeProxy |-> surge]

\* The run of a fresh effect instance, taken to its first provider call (or
\* to its end when it makes none).
StartRun(s) ==
  LET visible == (IF s.showRegular THEN s.regularRoutes ELSE <<>>)
                 \o (IF s.showAlternates THEN s.altRoutes ELSE <<>>)
      sorted  == SortBy(s.regularRoutes, ByDuration(s.regularRoutes))
      empty   == [alive |-> TRUE, pickup |-> s.pickup, drop |-> s.drop,
                  radiusM |-> s.radiusM, showRegular |-> s.showRegular,
                  showAlternates |-> s.showAlternates, visible |-> <<>>,
                  surgeProxy |-> s.surgeProxy, bestPrice |-> 0,
                  tier |-> "strict", ri |-> 1, pi |-> 1, pc |-> "commit",
                  tailPts |-> <<>>, passes |-> <<>>,
                  walkMin |-> 0, wk |-> "", acc |-> <<>>, tried |-> <<>>, failed |-> {},
                  results |-> <<>>]
  IN IF s.pickup = NULL \/ s.drop = NULL THEN empty
     ELSE IF Len(sorted) = 0 THEN empty
     ELSE LET bestReg   == sorted[1]
              bestPrice == modeledPriceUSD(bestReg.distance, bestReg.duration,
                                           s.surgeProxy, EndPenalty(bestReg)).center
          IN StartTier([empty EXCEPT !.visible = visible, !.bestPrice = bestPrice,
                                     !.pc = "seek"], "strict")

\* mapboxWalk returned: keep the walk minutes and issue mapboxDrive; wk
\* tells until the driving query returns whether the walking query gave a
\* route ("route") or nothing ("null")
AfterWalk(j, outcome) ==
  IF outcome = THROWN THEN Threw(j)
  ELSE [j EXCEPT !.pc = "drive", !.walkMin = WalkMinOf(j, outcome),
                 !.wk = IF outcome.kind = "ok" THEN "route" ELSE "null"]

\* variant that leaves the loops of the pass when a driving query gives
\* no route
AfterDriveBreaks(j, outcome) ==
  IF outcome = THROWN THEN Threw(j)
  ELSE IF outcome.kind # "ok"
       THEN EndTier([j EXCEPT !.walkMin = 0, !.wk = "",
                              !.failed = @ \cup {<<CurRoute(j).label, CurPoint(j)>>}])
  ELSE LET c == Cand(CurPoint(j), j.walkMin, outcome.v, CurRoute(j).label,
                     j.surgeProxy, ReasonOf(j.tier))
       IN IF ~Admits(j, outcome.v)
          THEN Seek([j EXCEPT !.pi = @ + 1, !.walkMin = 0, !.wk = "", !.tried = Append(@, c)])
          ELSE Seek([j EXCEPT !.pi = @ + 1, !.walkMin = 0, !.wk = "", !.tried = Append(@, c),
                              !.acc = Append(@, c)])

\* mapboxDrive returned: "if (!drv) continue", the gates of the pass, push
AfterDrive(j, outcome) ==
  IF outcome = THROWN THEN Threw(j)
  ELSE IF outcome.kind # "ok"
       THEN Seek([j EXCEPT !.pi = @ + 1, !.walkMin = 0, !.wk = "",
                           !.failed = @ \cup {<<CurRoute(j).label, CurPoint(j)>>}])
  ELSE LET c == Cand(CurPoint(j), j.walkMin, outcome.v, CurRoute(j).label,
                     j.surgeProxy, ReasonOf(j.tier))
       IN IF ~Admits(j, outcome.v)
          THEN Seek([j EXCEPT !.pi = @ + 1, !.walkMin = 0, !.wk = "", !.tried = Append(@, c)])
          ELSE Seek([j EXCEPT !.pi = @ + 1, !.walkMin = 0, !.wk = "", !.tried = Append(@, c),
                              !.acc = Append(@, c)])

\* ----------------------------------------------- the build-routes effect
\* One run of the build-routes effect: pc is the query it awaits ("traffic":
\* the alternatives query, "free": the free-flow query); routesTraffic is
\* the sorted answer of the first.
RouteRun(pu, dr) ==
  [alive |-> TRUE, pickup |-> pu, drop |-> dr, pc |-> "traffic", routesTraffic |-> <<>>]

RegLabel(i) == IF i = 1 THEN "Regular A" ELSE "Regular B"
AltLabel(i) == CASE i = 1 -> "Alternate 1" [] i = 2 -> "Alternate 2" [] OTHER -> "Alternate 3"

RouteGeo(r, label, kind) ==
  [distance |-> r.distance, duration |-> r.duration, coords |-> r.coords,
   label |-> label, kind |-> kind]

\* routesTraffic.slice(0, REG_MAX).map(...)
BuildRegs(routesTraffic) ==
  [i \in 1..Min(Len(routesTraffic), REG_MAX) |->
     RouteGeo(routesTraffic[i], RegLabel(i), "regular")]

\* variant slicing the alternates from the head of the list
BuildAltsFromHead(routesTraffic) ==
  [i \in 1..Min(Len(routesTraffic), ALT_MAX) |->
     RouteGeo(routesTraffic[i], AltLabel(i), "alternate")]

\* routesTraffic.slice(REG_MAX, REG_MAX + ALT_MAX).map(...), alts.slice(0, ALT_MAX)
BuildAlts(routesTraffic) ==
  [i \in 1..Min(Max(Len(routesTraffic) - REG_MAX, 0), ALT_MAX) |->
     RouteGeo(routesTraffic[REG_MAX + i], AltLabel(i), "alternate")]

\* surge bounds in thousandths
SURGE_MIN == 1000
SURGE_MAX == 1300

\* variant without the clamp
SurgeOfRatio(fastest, outcome) ==
  IF outcome = THROWN THEN SURGE_MIN
  ELSE LET freeDur == IF outcome.kind = "ok" THEN outcome.v ELSE fastest.duration
       IN (1000 * fastest.duration) \div Max(1, freeDur)

\* Math.max(1.0, Math.min(1.3, fastest.duration / Math.max(1, freeDur))),
\* 1.0 when the free-flow query throws
SurgeOf(fastest, outcome) ==
  IF outcome = THROWN THEN SURGE_MIN
  ELSE LET freeDur == IF outcome.kind = "ok" THEN outcome.v ELSE fastest.duration
       IN Max(SURGE_MIN, Min(SURGE_MAX, (1000 * fastest.duration) \div Max(1, freeDur)))

\* --------------------------------------------------------- React renders
Now ==
  StateRec(pickup, drop, radiusM, showRegular, showAlternates,
           regularRoutes, altRoutes, surgeProxy)

\* dependency lists of the two effects
RouteDeps(s) == <<s.pickup, s.drop>>
CandDeps(s) ==
  <<s.showRegular, s.showAlternates, Labels(s.regularRoutes), Labels(s.altRoutes),
    s.pickup, s.drop, s.radiusM, s.surgeProxy>>

\* cleanup of an effect instance: "alive = false"
Cleanup(jobs) == [i \in 1..Len(jobs) |-> [jobs[i] EXCEPT !.alive = FALSE]]

Remove(jobs, i) == SubSeq(jobs, 1, i - 1) \o SubSeq(jobs, i + 1, Len(jobs))

\* the values a run of the candidates effect captured at its render
Inputs(r) ==
  [pickup |-> r.pickup, drop |-> r.drop, radiusM |-> r.radiusM,
   showRegular |-> r.showRegular, showAlternates |-> r.showAlternates,
   surgeProxy |-> r.surgeProxy]

\* What the last step was: the handler or continuation that ran (kind), the
\* alive flag of the effect instance it belongs to, and, when a run of the
\* candidates effect ended in it, how (run: "commit" it called
\* setCandidates, "discard" it found alive false, "threw" an exception left
\* it), with what it had captured and, for a commit, its passes.  free
\* tells what `free?.[0]?.duration` was when the step stored a surge proxy:
\* "ok" with the duration v, "none" when the query gave none (it threw,
\* answered with an error status or with no route), "unasked" otherwise.
NoRun == [run |-> "none", inputs |-> <<>>, passes |-> <<>>,
          free |-> [kind |-> "unasked", v |-> 0]]
RunEnd(how, j) ==
  [run |-> how, inputs |-> Inputs(j),
   passes |-> IF how = "commit" THEN j.passes ELSE <<>>,
   free |-> [kind |-> "unasked", v |-> 0]]
FreeEnd(outcome) ==
  [NoRun EXCEPT !.free = IF outcome # THROWN /\ outcome.kind = "ok"
                         THEN [kind |-> "ok", v |-> outcome.v]
                         ELSE [kind |-> "none", v |-> 0]]
Event(kind, alive, end) ==
  [kind |-> kind, alive |-> alive, run |-> end.run, inputs |-> end.inputs,
   passes |-> end.passes, free |-> end.free]

\* The state updates of one handler or continuation are applied in one
\* render (they are batched); the effects whose dependencies changed are
\* cleaned up and run again.  s is the state after the updates, rj and cj
\* the runs in flight, cands the candidate list after the updates, and
\* (kind, alive, end) what happened.
Render(s, rj, cj, cands, kind, alive, end) ==
  LET routeAgain == RouteDeps(s) # RouteDeps(Now)
      candAgain  == CandDeps(s) # CandDeps(Now)
      run        == StartRun(s)
      rj2 == IF ~routeAgain THEN rj
             ELSE IF s.pickup = NULL \/ s.drop = NULL THEN Cleanup(rj)
             ELSE Append(Cleanup(rj), RouteRun(s.pickup, s.drop))
      cj2 == IF ~candAgain THEN cj
             ELSE IF run.pc \in {"commit", "threw"} THEN Cleanup(cj)
             ELSE Append(Cleanup(cj), run)
  IN /\ pickup' = s.pickup
     /\ drop' = s.drop
     /\ radiusM' = s.radiusM
     /\ showRegular' = s.showRegular
     /\ showAlternates' = s.showAlternates
     /\ regularRoutes' = s.regularRoutes
     /\ altRoutes' = s.altRoutes
     /\ surgeProxy' = s.surgeProxy
     /\ routeJobs' = rj2
     /\ candJobs' = cj2
     /\ candidates' = IF candAgain /\ run.pc = "commit" THEN run.results ELSE cands
     /\ UNCHANGED calls
     /\ lastEvent' = Event(kind, alive,
                           IF candAgain /\ run.pc = "commit"
                           THEN [RunEnd("commit", run) EXCEPT !.free = end.free]
                           ELSE IF candAgain /\ run.pc = "threw"
                           THEN [RunEnd("threw", run) EXCEPT !.free = end.free]
                           ELSE end)

\* ---------------------------------------------- "quick resolve defaults"
\* The mount effect: fsqSuggest('Lark Austin') then, whatever it found,
\* fsqSuggest('UT Austin Main Building'); mount is the call it awaits.
\* found: r[0] exists; a failed search gives [] (nothing is set); a rejected
\* fetch leaves the effect.
MountReturns ==
  /\ mount \in {"pickup", "drop"}
  /\ UNCHANGED userOps
  /\ \E outcome \in {"found", "none", "thrown"} :
       /\ mount' = IF outcome = "thrown" \/ mount = "drop" THEN "done" ELSE "drop"
       /\ Render(IF outcome # "found" THEN Now
                 ELSE IF mount = "pickup" THEN [Now EXCEPT !.pickup = DefaultPickup]
                 ELSE [Now EXCEPT !.drop = DefaultDrop],
                 routeJobs, candJobs, candidates, "mount", TRUE, NoRun)

\* ------------------------------------------------------------ user input
Radii == {DEFAULT_RADIUS, 800}

UserInput(s) ==
  /\ userOps < MaxUserOps
  /\ userOps' = userOps + 1
  /\ UNCHANGED mount
  /\ Render(s, routeJobs, candJobs, candidates, "input", TRUE, NoRun)

\* onPick of the pickup field (and the default resolved at mount)
SetPickup ==
  \E p \in Pickups \ {pickup} : UserInput([Now EXCEPT !.pickup = p])

\* onPick of the drop-off field (and the default resolved at mount)
SetDrop ==
  \E d \in Drops \ {drop} : UserInput([Now EXCEPT !.drop = d])

\* the radius slider
SetRadiusM ==
  \E r \in Radii \ {radiusM} : UserInput([Now EXCEPT !.radiusM = r])

\* the two check boxes
SetShowRegular == UserInput([Now EXCEPT !.showRegular = ~showRegular])
SetShowAlternates == UserInput([Now EXCEPT !.showAlternates = ~showAlternates])

\* ------------------------------------------- build-routes continuations
\* the alternatives query of run i returns
TrafficReturns ==
  \E i \in 1..Len(routeJobs) :
    LET j == routeJobs[i]
    IN /\ j.pc = "traffic"
       /\ \E outcome \in {HTTP_ERROR, THROWN, NO_ROUTE}
                           \cup {Ok(l) : l \in RouteListsOf(j.drop)} :
            /\ UNCHANGED <<userOps, mount>>
            /\ IF outcome = THROWN
               THEN \* fetch rejected: the exception leaves the async function
                    Render(Now, Remove(routeJobs, i), candJobs, candidates,
                           "routesThrew", j.alive, NoRun)
               ELSE IF outcome.kind # "ok" \/ Len(outcome.v) = 0
               THEN \* setRegularRoutes([]); setAltRoutes([]); return
                    Render([Now EXCEPT !.regularRoutes = <<>>, !.altRoutes = <<>>],
                           Remove(routeJobs, i), candJobs, candidates,
                           "routesEmpty", j.alive, NoRun)
               ELSE Render(Now,
                           [routeJobs EXCEPT ![i] =
                              [j EXCEPT !.pc = "free",
                                        !.routesTraffic = SortBy(outcome.v, ByDuration(outcome.v))]],
                           candJobs, candidates, "routesTraffic", j.alive, NoRun)

\* the free-flow query of run i returns
FreeReturns ==
  \E i \in 1..Len(routeJobs) :
    LET j == routeJobs[i]
    IN /\ j.pc = "free"
       /\ \E outcome \in {HTTP_ERROR, THROWN, NO_ROUTE}
                           \cup {Ok(d) : d \in FreeDurationsOf(j.drop)} :
            LET surge == SurgeOf(j.routesTraffic[1], outcome)
            IN /\ UNCHANGED <<userOps, mount>>
               /\ IF j.alive
                  THEN Render([Now EXCEPT !.surgeProxy = surge,
                                          !.regularRoutes = BuildRegs(j.routesTraffic),
                                          !.altRoutes = BuildAlts(j.routesTraffic)],
                              Remove(routeJobs, i), candJobs, candidates,
                              "routesSet", TRUE, FreeEnd(outcome))
                  ELSE \* "if (alive) setSurgeProxy", "if (!alive) return"
                       Render(Now, Remove(routeJobs, i), candJobs, candidates,
                              "routesStale", FALSE, NoRun)

\* variant committing whatever the alive flag says
CommitUnguarded(alive) == TRUE

\* ---------------------------------------------- candidates continuations
\* "if (alive) setCandidates(results)"
CommitGuard(alive) == alive

\* The run i moved to j2: it awaits its next call, or it ended, by an
\* exception or at "if (alive) setCandidates(results)".
CandMoved(i, j2) ==
  LET j      == candJobs[i]
      ended  == j2.pc \in {"threw", "commit"}
      writes == j2.pc = "commit" /\ CommitGuard(j.alive)
      how    == IF j2.pc = "threw" THEN "threw"
                ELSE IF writes THEN "commit" ELSE "discard"
  IN /\ UNCHANGED <<userOps, mount>>
     /\ Render(Now, routeJobs,
               IF ended THEN Remove(candJobs, i) ELSE [candJobs EXCEPT ![i] = j2],
               IF writes THEN j2.results ELSE candidates,
               IF ended THEN "candEnd" ELSE "candStep",
               j.alive,
               IF ended THEN RunEnd(how, j2) ELSE NoRun)

WalkOutcomes(j) ==
  {HTTP_ERROR, THROWN, NO_ROUTE} \cup {Ok(d) : d \in WalkDurationsOf(CurPoint(j), j.drop)}

DriveOutcomes(j) ==
  {HTTP_ERROR, THROWN, NO_ROUTE} \cup {Ok(d) : d \in DriveStatsOf(j.pickup, CurPoint(j))}

\* mapboxWalk(p, drop) of run i returns
WalkReturns ==
  \E i \in 1..Len(candJobs) :
    /\ candJobs[i].pc = "walk"
    /\ \E outcome \in WalkOutcomes(candJobs[i]) :
         CandMoved(i, AfterWalk(candJobs[i], outcome))

\* mapboxDrive(pickup, p) of run i returns
DriveReturns ==
  \E i \in 1..Len(candJobs) :
    /\ candJobs[i].pc = "drive"
    /\ \E outcome \in DriveOutcomes(candJobs[i]) :
         CandMoved(i, AfterDrive(candJobs[i], outcome))

\* every way the run j can end, its remaining calls returning in any way
Ended(j) == j.pc \in {"commit", "threw"}
CallReturns(j) ==
  CASE j.pc = "walk"  -> {AfterWalk(j, o) : o \in WalkOutcomes(j)}
    [] j.pc = "drive" -> {AfterDrive(j, o) : o \in DriveOutcomes(j)}
    [] OTHER          -> {j}
RECURSIVE Ends(_)
Ends(runs) ==
  IF \A j \in runs : Ended(j) THEN runs
  ELSE Ends(UNION {CallReturns(j) : j \in runs})
Finals(j) == Ends({j})

\* Once its effect instance is cleaned up a run can write nothing any more,
\* so only how it ends is kept of it.
EndsOf(j) ==
  IF j.alive \/ CommitGuard(j.alive) THEN Finals(j)
  ELSE {[j EXCEPT !.pc = "threw"], [j EXCEPT !.pc = "commit"]}

\* Between its start and its guarded commit a run reads only the values its
\* closure captured and writes only its locals, so the page-level
\* specification takes its provider calls together: the run ends, by an
\* exception or by reaching the commit with one of the result lists its
\* calls can produce.  (RunSpec below takes the calls one by one.)
RunEnds ==
  \E i \in 1..Len(candJobs) :
    \E j2 \in EndsOf(candJobs[i]) : CandMoved(i, j2)

\* --------------------------------------------------------- specification
\* the page after construction
Init ==
  /\ pickup = NULL
  /\ drop = NULL
  /\ radiusM = DEFAULT_RADIUS
  /\ showRegular = TRUE
  /\ showAlternates = TRUE
  /\ regularRoutes = <<>>
  /\ altRoutes = <<>>
  /\ surgeProxy = SURGE_MIN
  /\ candidates = <<>>
  /\ routeJobs = <<>>
  /\ candJobs = <<>>
  /\ mount = "pickup"
  /\ userOps = 0
  /\ lastEvent = Event("init", TRUE, NoRun)
  /\ calls = <<>>

Next ==
  \/ MountReturns
  \/ SetPickup
  \/ SetDrop
  \/ SetRadiusM
  \/ SetShowRegular
  \/ SetShowAlternates
  \/ TrafficReturns
  \/ FreeReturns
  \/ RunEnds

Spec == Init /\ [][Next]_vars

\* ------------------------------------------- one run, call by call
\* The surge proxies a build-routes run can store for a fastest route.
SurgesOf(fastest) ==
  {SurgeOf(fastest, o) : o \in {HTTP_ERROR, THROWN, NO_ROUTE} \cup {Ok(d) : d \in FreeDurations}}

\* The page right after a build-routes run stored its routes for the default
\* pair and the candidates effect started the run for them, for every route
\* list, radius, visibility and surge.
RunInit ==
  \E l \in PipeRouteLists, rad \in Radii, sReg \in BOOLEAN, sAlt \in BOOLEAN :
    LET sorted == SortBy(l, ByDuration(l))
    IN \E surge \in SurgesOf(sorted[1]) :
         LET s   == StateRec(DefaultPickup, DefaultDrop, rad, sReg, sAlt,
                             BuildRegs(sorted), BuildAlts(sorted), surge)
             run == StartRun(s)
         IN /\ pickup = s.pickup
            /\ drop = s.drop
            /\ radiusM = s.radiusM
            /\ showRegular = s.showRegular
            /\ showAlternates = s.showAlternates
            /\ regularRoutes = s.regularRoutes
            /\ altRoutes = s.altRoutes
            /\ surgeProxy = s.surgeProxy
            /\ candidates = (IF run.pc = "commit" THEN run.results ELSE <<>>)
            /\ routeJobs = <<>>
            /\ candJobs = (IF Ended(run) THEN <<>> ELSE <<run>>)
            /\ mount = "done"
            /\ userOps = 0
            /\ lastEvent = Event("routesSet", TRUE,
                                  IF run.pc = "commit" THEN RunEnd("commit", run)
                                  ELSE IF run.pc = "threw" THEN RunEnd("threw", run)
                                  ELSE NoRun)
            /\ calls = <<>>

RunNext ==
  \/ WalkReturns
  \/ DriveReturns

RunSpec == RunInit /\ [][RunNext]_vars

\* ------------------------------------- the build-routes effect alone
\* The page right after the user chose the pair (P1, D3): the build-routes
\* effect has started and awaits its alternatives query.
RoutesInit ==
  /\ pickup = P1
  /\ drop = D3
  /\ radiusM = DEFAULT_RADIUS
  /\ showRegular = TRUE
  /\ showAlternates = TRUE
  /\ regularRoutes = <<>>
  /\ altRoutes = <<>>
  /\ surgeProxy = SURGE_MIN
  /\ candidates = <<>>
  /\ routeJobs = <<RouteRun(P1, D3)>>
  /\ candJobs = <<>>
  /\ mount = "done"
  /\ userOps = 0
  /\ lastEvent = Event("input", TRUE, NoRun)
  /\ calls = <<>>

RoutesNext ==
  \/ TrafficReturns
  \/ FreeReturns
  \/ RunEnds

RoutesSpec == RoutesInit /\ [][RoutesNext]_vars

\* ------------------------------------------------ the fare models
\* The wall clock as the estimates route reads it: new Date().getHours() and
\* rnd = Math.sin(Math.floor(Date.now() / 60000)) * 0.5 + 0.5, the value the
\* current minute gives, in thousandths.
Clock(hour, rnd) == [hour |-> hour, rnd |-> rnd]
Clocks == {Clock(h, r) : h \in {3, 8}, r \in {0, 1000}}

\* modeledPriceUSD(distance_m, duration_s?) of the estimates route.  The
\* duration is optional (0 counts as absent); the surge comes from the clock.
apiModeledPriceUSD(distance_cm, duration_s, clock) ==
  LET miles  == distance_cm \div CM_PER_MILE
      \* perMin * mins, mins = duration_s ? duration_s/60 : Math.max(5, miles * 2.2)
      perMins == IF duration_s # 0 THEN 550 * duration_s
                 ELSE Max(5 * 33000, 72600 * miles)
      sum    == 225000 + 150000 * miles + perMins + 120000
      h      == clock.hour
      rush   == (h >= 7 /\ h <= 9) \/ (h >= 16 /\ h <= 19)
      surge  == IF rush THEN 1150 + (clock.rnd * 350) \div 1000
                ELSE 1000 + (clock.rnd * 200) \div 1000
      \* sum * surge / 1000, in two parts to stay within 32 bits
      est    == (sum \div 1000) * surge + ((sum % 1000) * surge) \div 1000
      center == Max(500000, est)
  IN [low |-> center - center \div 10,
      high |-> center + (center \div 20) * 3,
      center |-> center]

\* the arguments of a call of the page's fare model
FareArgs ==
  [distance_m : {0, 10 * CM_PER_MILE}, duration_s : {0, 1500},
   surge : {SURGE_MIN, SURGE_MAX}, penaltyUSD : {0, 75000}]

\* One call of the fare models at some time: the quote of the page's model
\* for the arguments, and the quote of the route's model for the same
\* distance and duration.
FareCall ==
  /\ Len(calls) < MaxCalls
  /\ \E a \in FareArgs, clock \in Clocks :
       calls' = Append(calls,
                       [args |-> a, clock |-> clock,
                        page |-> modeledPriceUSD(a.distance_m, a.duration_s,
                                                 a.surge, a.penaltyUSD),
                        route |-> apiModeledPriceUSD(a.distance_m, a.duration_s, clock)])
  /\ UNCHANGED <<pickup, drop, radiusM, showRegular, showAlternates,
                 regularRoutes, altRoutes, surgeProxy, candidates,
                 routeJobs, candJobs, mount, userOps, lastEvent>>

FareNext == FareCall

FareSpec == Init /\ [][FareNext]_vars

\* ------------------------------------------- GET /api/uber/estimates
\* A query parameter as url.searchParams.get returns it: null when the
\* parameter is absent, its text otherwise.
Absent == [given |-> FALSE, text |-> ""]
Param(text) == [given |-> TRUE, text |-> text]

\* JavaScript numbers: a finite value (coordinates in 1e-7 degree), NaN,
\* Infinity
Num(v) == [finite |-> TRUE, v |-> v, nan |-> FALSE]
NaN == [finite |-> FALSE, v |-> 0, nan |-> TRUE]
Infinity == [finite |-> FALSE, v |-> 0, nan |-> FALSE]

\* Number(x) for the texts of the catalogue: Number(null) and Number("")
\* are 0, a text that is no numeral is NaN
Number(raw) ==
  IF ~raw.given THEN Num(0)
  ELSE CASE raw.text = ""         -> Num(0)
         [] raw.text = "30.25"    -> Num(302500000)
         [] raw.text = "-97.75"   -> Num(-977500000)
         [] raw.text = "30.2862"  -> Num(302862000)
         [] raw.text = "-97.7394" -> Num(-977394000)
         [] raw.text = "Infinity" -> Infinity
         [] OTHER                 -> NaN

isFinite(x) == x.finite

\* haversine(a, b) of the route, in centimetres and whole miles: tabulated
\* for the pairs the requests of the catalogue give
haversine(a, b) ==
  IF a = b THEN 0
  ELSE IF a = P1 /\ b = D1 THEN 3 * CM_PER_MILE
  ELSE 2000 * CM_PER_MILE

Requests ==
  [startLat : {Absent, Param("abc"), Param("Infinity"), Param("30.25")},
   startLng : {Absent, Param("-97.75")},
   endLat   : {Absent, Param("abc"), Param("30.2862")},
   endLng   : {Absent, Param(""), Param("-97.7394")}]

\* the handler: 400 'bad params' unless the four numbers are finite, else
\* the modeled range for the straight-line distance.  (Its catch branch
\* answers a range for 2000 m; nothing in the try block throws for a
\* request the server hands over, since new URL(req.url) parses and
\* Number never throws.)
Respond(req, clock) ==
  LET startLat == Number(req.startLat)
      startLng == Number(req.startLng)
      endLat   == Number(req.endLat)
      endLng   == Number(req.endLng)
  IN IF ~(\A x \in {startLat, startLng, endLat, endLng} : isFinite(x))
     THEN [status |-> 400, estimated |-> FALSE, range |-> NULL]
     ELSE LET d == haversine(Pt(startLat.v, startLng.v), Pt(endLat.v, endLng.v))
          IN [status |-> 200, estimated |-> TRUE,
              range |-> apiModeledPriceUSD(d, 0, clock)]

\* one request handled; calls holds the request and its response
GET ==
  /\ \E req \in Requests, clock \in Clocks :
       calls' = <<[req |-> req, clock |-> clock, res |-> Respond(req, clock)]>>
  /\ UNCHANGED <<pickup, drop, radiusM, showRegular, showAlternates,
                 regularRoutes, altRoutes, surgeProxy, candidates,
                 routeJobs, candJobs, mount, userOps, lastEvent>>

ApiNext == GET

ApiSpec == Init /\ [][ApiNext]_vars

\* ------------------------------------- the sampler and the zone penalty
\* Geometries of 0 to MaxGeometry coordinates along a meridian: with a step
\* of 1e-4 degree all points differ in their toFixed(5) key, with a step of
\* 3e-6 degree neighbours share it.
MaxGeometry == 24
Geometries ==
  { [i \in 1..n |-> <<-977394000, 302000000 + i * step>>] :
      n \in 0..MaxGeometry, step \in {30, 1000} }

\* one call of sampleTail
SampleCall ==
  /\ \E coords \in Geometries, count \in {1, 3, SAMPLE_COUNT},
        fraction \in {TAIL_FRACTION, 50, 100} :
       calls' = <<[fn |-> "sampleTail", coords |-> coords, count |-> count,
                   fraction |-> fraction,
                   res |-> sampleTail(coords, count, fraction)]>>
  /\ UNCHANGED <<pickup, drop, radiusM, showRegular, showAlternates,
                 regularRoutes, altRoutes, surgeProxy, candidates,
                 routeJobs, candJobs, mount, userOps, lastEvent>>

\* Points around the boxes of ZONES: just outside, on and inside every edge.
ZonePoints ==
  UNION { { Pt(lat, lng) :
              lat \in {b.minLat - 1, b.minLat, b.minLat + 1,
                       b.maxLat - 1, b.maxLat, b.maxLat + 1},
              lng \in {b.minLng - 1, b.minLng, b.minLng + 1,
                       b.maxLng - 1, b.maxLng, b.maxLng + 1} } :
          b \in {ZONES[i].box : i \in 1..Len(ZONES)} }
  \cup {P1, P2, D1, D2, D3}

\* one call of zonePenaltyUSD
ZoneCall ==
  /\ \E p \in ZonePoints :
       calls' = <<[fn |-> "zonePenaltyUSD", p |-> p, res |-> zonePenaltyUSD(p)]>>
  /\ UNCHANGED <<pickup, drop, radiusM, showRegular, showAlternates,
                 regularRoutes, altRoutes, surgeProxy, candidates,
                 routeJobs, candJobs, mount, userOps, lastEvent>>

GeomNext ==
  \/ SampleCall
  \/ ZoneCall

GeomSpec == Init /\ [][GeomNext]_vars

\* ------------------------------------------- the places search endpoint
\* Number(searchParams.get('limit') || '10') for the texts of the
\* catalogue: an absent or empty parameter reads as '10', a text that is no
\* numeral is NaN; the values are counts
LimitNumber(raw) ==
  LET text == IF ~raw.given \/ raw.text = "" THEN "10" ELSE raw.text
  IN CASE text = "10"       -> Num(10)
       [] text = "0"        -> Num(0)
       [] text = "1"        -> Num(1)
       [] text = "2"        -> Num(2)
       [] text = "3"        -> Num(3)
       [] text = "15"       -> Num(15)
       [] text = "16"       -> Num(16)
       [] text = "-3"       -> Num(-3)
       [] text = "Infinity" -> Infinity
       [] OTHER             -> NaN

\* Math.max(1, Math.min(15, x)): NaN when x is NaN
ClampLimit(x) ==
  IF x.nan THEN NaN
  ELSE IF ~x.finite THEN Num(15)
  ELSE Num(Max(1, Min(15, x.v)))

\* Entries of the upstream answers: name is "" when the entry has none,
\* located is FALSE when its location has no numeric lat and lng.  The
\* second differs from the first in the seventh decimal of its latitude.
Venues ==
  { [name |-> "Lark Austin", located |-> TRUE, lat |-> 302500000, lng |-> -977500000],
    [name |-> "Lark Austin", located |-> TRUE, lat |-> 302500001, lng |-> -977500000],
    [name |-> "Lark Austin", located |-> TRUE, lat |-> 302862000, lng |-> -977394000],
    [name |-> "UT Tower", located |-> TRUE, lat |-> 302862000, lng |-> -977394000],
    [name |-> "", located |-> TRUE, lat |-> 302400000, lng |-> -977600000],
    [name |-> "UT Tower", located |-> FALSE, lat |-> 0, lng |-> 0] }

\* What one upstream call gives: null (rejected fetch, error status) or the
\* answer's list, here of up to two entries.
UpstreamOutcomes ==
  {[ok |-> FALSE, list |-> <<>>]}
  \cup {[ok |-> TRUE, list |-> l] :
          l \in {<<>>} \cup {<<a>> : a \in Venues}
                \cup {<<a, b>> : a \in Venues, b \in Venues}}

\* the loop over minis and venues with push(name, subtitle, lat, lng):
\* entries without a name or a numeric position and entries whose key was
\* seen are passed over
RECURSIVE PushAll(_, _, _)
PushAll(list, i, seen) ==
  IF i > Len(list) THEN <<>>
  ELSE LET v   == list[i]
           key == <<v.name, Key6(Pt(v.lat, v.lng))>>
       IN IF v.name = "" \/ ~v.located \/ key \in seen
          THEN PushAll(list, i + 1, seen)
          ELSE <<[label |-> v.name, lat |-> v.lat, lng |-> v.lng]>>
               \o PushAll(list, i + 1, seen \cup {key})

\* requests: the limit parameter, the query text, and whether the
\* deployment has its two credentials
PlacesRequests ==
  [limit : {Absent, Param(""), Param("0"), Param("1"), Param("2"), Param("3"),
            Param("15"), Param("16"), Param("-3"), Param("Infinity"), Param("abc")},
   q     : {Absent, Param("l"), Param("lark")},
   creds : BOOLEAN]

\* the handler; asked is the limit it sends upstream (FALSE in called when
\* it answers without asking)
PlacesRespond(req, sugRes, seaRes) ==
  LET limit == ClampLimit(LimitNumber(req.limit))
  IN IF ~req.creds
     THEN [status |-> 500, called |-> FALSE, asked |-> limit, features |-> <<>>]
     ELSE IF ~req.q.given \/ Len(req.q.text) < 2
     THEN [status |-> 200, called |-> FALSE, asked |-> limit, features |-> <<>>]
     ELSE LET minis  == IF sugRes.ok THEN sugRes.list ELSE <<>>
              venues == IF seaRes.ok THEN seaRes.list ELSE <<>>
              out    == PushAll(minis \o venues, 1, {})
              \* out.slice(0, limit): nothing for NaN
              upto   == IF limit.nan THEN 0 ELSE Min(limit.v, Len(out))
          IN [status |-> 200, called |-> TRUE, asked |-> limit,
              features |-> SubSeq(out, 1, upto)]

\* the requests handled in one behaviour
MaxRequests == 1

\* one request handled; calls holds the request, what the two upstream
\* calls gave, and the response
PlacesGET ==
  /\ Len(calls) < MaxRequests
  /\ \E req \in PlacesRequests, sugRes \in UpstreamOutcomes, seaRes \in UpstreamOutcomes :
       LET res == PlacesRespond(req, sugRes, seaRes)
       IN calls' = Append(calls,
                          [req |-> req,
                           sugRes |-> IF res.called THEN sugRes ELSE [ok |-> FALSE, list |-> <<>>],
                           seaRes |-> IF res.called THEN seaRes ELSE [ok |-> FALSE, list |-> <<>>],
                           res |-> res])
  /\ UNCHANGED <<pickup, drop, radiusM, showRegular, showAlternates,
                 regularRoutes, altRoutes, surgeProxy, candidates,
                 routeJobs, candJobs, mount, userOps, lastEvent>>

PlacesNext == PlacesGET

PlacesSpec == Init /\ [][PlacesNext]_vars

\* ======================================================== properties
\* the routes the candidates effect would walk over in the current state
VisibleNow ==
  (IF showRegular THEN regularRoutes ELSE <<>>)
  \o (IF showAlternates THEN altRoutes ELSE <<>>)

\* the passes of a given tier in the run that ended in the last step
PassesOf(tier) == {k \in 1..Len(lastEvent.passes) : lastEvent.passes[k].tier = tier}

\* C1, as stated: every candidate of a committed list lies strictly more than
\* the 12 m minimum separation from the destination and at most the walk
\* radius from it.
C1_Original ==
  lastEvent.run = "commit" =>
    \A k \in 1..Len(candidates) :
      /\ haversineMeters(candidates[k].drop, drop) > MIN_SEPARATION
      /\ haversineMeters(candidates[k].drop, drop) <= radiusM

\* C1, amended: every candidate of a committed list lies at least the 12 m
\* minimum separation from the destination and at most the walk radius from it.
C1_Amended ==
  lastEvent.run = "commit" =>
    \A k \in 1..Len(candidates) :
      /\ haversineMeters(candidates[k].drop, drop) >= MIN_SEPARATION
      /\ haversineMeters(candidates[k].drop, drop) <= radiusM

\* a committed list with a candidate exactly on the floor and one exactly on
\* the radius
C1_Witness ==
  /\ lastEvent.run = "commit"
  /\ \E k \in 1..Len(candidates) :
       haversineMeters(candidates[k].drop, drop) = MIN_SEPARATION
  /\ \E k \in 1..Len(candidates) :
       haversineMeters(candidates[k].drop, drop) = radiusM

\* C2: no candidate of a committed list, of whatever tier, has a walking time
\* above the ceiling metersToMinWalk(radiusM) + 1.
C2_Original ==
  lastEvent.run = "commit" =>
    \A k \in 1..Len(candidates) :
      candidates[k].walkMin <= metersToMinWalk(radiusM) + 1

\* sampled points of the visible routes, route by route, that satisfy the
\* radius and separation limits
InRangeSamples ==
  {<<i, k>> \in (1..Len(VisibleNow)) \X (1..SAMPLE_COUNT) :
     /\ k <= Len(TailOf(VisibleNow[i]).pts)
     /\ RadialOK(TailOf(VisibleNow[i]).pts[k], drop, radiusM)}

\* the run that ended in the last step committed after its strict and its
\* relaxed pass had admitted nothing
NothingBeforeClosest ==
  /\ lastEvent.run = "commit"
  /\ PassesOf("strict") # {}
  /\ \A k \in PassesOf("strict") \cup PassesOf("relaxed") : lastEvent.passes[k].n = 0

\* the candidates are the nearest of the points the pass admitted: none of
\* the points left out is nearer the destination than a committed one
ByProximity(pass) ==
  \A k \in 1..Len(candidates) : \A x \in pass.drops :
    (\A m \in 1..Len(candidates) : Key6(candidates[m].drop) # Key6(x)) =>
      haversineMeters(candidates[k].drop, drop) <= haversineMeters(x, drop)

C4_Original ==
  lastEvent.run = "commit" =>
    \A k, m \in 1..Len(candidates) :
      k # m => Key6(candidates[k].drop) # Key6(candidates[m].drop)

\* C5: the candidate list never holds more than MAX_SUGGESTIONS, that is 4,
\* candidates.
C5_AtMostFour == Len(candidates) <= 4

\* a commit of 4 candidates by a run whose strict pass had admitted more
C5_Witness ==
  /\ lastEvent.run = "commit"
  /\ Len(candidates) = 4
  /\ \E k \in PassesOf("strict") : lastEvent.passes[k].n > 4

\* C6: a list is written to the candidates only by a run that captured the
\* pickup, destination, radius, visibility flags and surge the page holds at
\* the time of the write; the results of a superseded run are never written.
C6_OnlyCurrentRunWrites ==
  lastEvent.run = "commit" => lastEvent.inputs = Inputs(Now)

\* a run superseded by a change of its inputs reached its end and was dropped
C6_Witness ==
  /\ lastEvent.run = "discard"
  /\ lastEvent.inputs # Inputs(Now)

\* the continuations of the build-routes effect
RouteKinds == {"routesThrew", "routesEmpty", "routesTraffic", "routesSet", "routesStale"}

\* C7: a continuation of a superseded route query (alive false) leaves the
\* stored routes and the surge proxy as they are.
C7_Original ==
  [][(lastEvent'.kind \in RouteKinds /\ ~lastEvent'.alive) =>
       UNCHANGED <<regularRoutes, altRoutes, surgeProxy>>]_vars

\* C8: once a run has committed and nothing is in flight any more, every
\* candidate is a sampled tail point of the stored route that carries its
\* label.
C8_Original ==
  (lastEvent.run = "commit" /\ routeJobs = <<>> /\ candJobs = <<>>) =>
    \A k \in 1..Len(candidates) :
      \E i \in 1..Len(VisibleNow) :
        /\ VisibleNow[i].label = candidates[k].routeIdx
        /\ \E m \in 1..Len(TailOf(VisibleNow[i]).pts) :
             TailOf(VisibleNow[i]).pts[m] = candidates[k].drop

\* C9: no run of the candidates effect ends with an exception leaving it.
C9_Original == lastEvent.run # "threw"

\* C10: when the alternatives query of the current pair has failed or has
\* returned no route, the Regular set, the Alternate set and the candidates
\* are empty.
C10_Original ==
  (lastEvent.kind \in {"routesThrew", "routesEmpty"} /\ lastEvent.alive) =>
    /\ regularRoutes = <<>>
    /\ altRoutes = <<>>
    /\ candidates = <<>>

\* a is the head of b
IsPrefix(a, b) == Len(a) <= Len(b) /\ SubSeq(b, 1, Len(a)) = a

\* C11: the list a pass leaves after its merge (the strict candidates after
\* the caps, the list after the relaxed merge) is still the head of the
\* committed list: the later passes and the final truncation only append.
C11_MergesOnlyAppend ==
  lastEvent.run = "commit" =>
    \A k \in 1..Len(lastEvent.passes) : IsPrefix(lastEvent.passes[k].kept, candidates)

C11_Witness ==
  /\ lastEvent.run = "commit"
  /\ Len(lastEvent.passes) >= 2
  /\ Len(lastEvent.passes[1].kept) >= 1
  /\ Len(candidates) > Len(lastEvent.passes[1].kept)
  /\ IsPrefix(lastEvent.passes[1].kept, candidates)

\* the tiers that ran in the run that just ended, in order
TiersRun == [k \in 1..Len(lastEvent.passes) |-> lastEvent.passes[k].tier]

\* C12: in a committed run the relaxed pass ran exactly when the strict
\* pass left fewer than MIN_SUGGESTIONS candidates after its caps, and the
\* closest pass ran exactly when the list before it (after the relaxed
\* merge when that ran, after the strict caps otherwise) was still shorter
\* than MIN_SUGGESTIONS.
C12_TierEscalation ==
  (lastEvent.run = "commit" /\ Len(lastEvent.passes) >= 1) =>
    LET ps         == lastEvent.passes
        ranRelaxed == \E k \in 1..Len(ps) : ps[k].tier = "relaxed"
        ranClosest == \E k \in 1..Len(ps) : ps[k].tier = "closest"
        before     == IF ranRelaxed THEN ps[2].after ELSE ps[1].after
    IN /\ ps[1].tier = "strict"
       /\ ranRelaxed <=> ps[1].after < MIN_SUGGESTIONS
       /\ ranRelaxed => ps[2].tier = "relaxed"
       /\ ranClosest <=> before < MIN_SUGGESTIONS
       /\ ranClosest => ps[Len(ps)].tier = "closest"

C12_Witness ==
  /\ lastEvent.run = "commit"
  /\ TiersRun = <<"strict", "relaxed">>
  /\ lastEvent.passes[1].after < MIN_SUGGESTIONS
  /\ lastEvent.passes[2].after >= MIN_SUGGESTIONS

\* the candidates pass k appended to the committed list
AddedBy(k) ==
  LET ps   == lastEvent.passes
      from == IF k = 1 THEN 0 ELSE ps[k - 1].after
  IN {i \in 1..Len(candidates) : from < i /\ i <= ps[k].after}

\* C13: in a committed list no pass contributed more than PER_ROUTE_CAP
\* candidates carrying the same route label.
C13_Original ==
  lastEvent.run = "commit" =>
    \A k \in 1..Len(lastEvent.passes) : \A r \in 1..Len(VisibleNow) :
      Cardinality({i \in AddedBy(k) : candidates[i].routeIdx = VisibleNow[r].label})
        <= PER_ROUTE_CAP

\* the modeled fare of a route at the current surge
RoutePrice(r) ==
  modeledPriceUSD(r.distance, r.duration, surgeProxy, EndPenalty(r)).center

\* cheapestRegular and regularPrice: the regular route of least duration
\* and its modeled fare
cheapestRegular == SortBy(regularRoutes, ByDuration(regularRoutes))[1]
regularPrice == RoutePrice(cheapestRegular)

\* savings of a candidate against the regular price, floored at zero
Savings(c) == Max(0, regularPrice - CandPrice(c, surgeProxy))

\* C14: in a committed list a candidate never has smaller savings than the
\* one after it, and of two neighbours with equal savings the first has
\* the smaller (or the same) 1.5 * distance + duration.
C14_Original ==
  lastEvent.run = "commit" =>
    \A i \in 1..(Len(candidates) - 1) :
      LET a == candidates[i]
          b == candidates[i + 1]
      IN /\ Savings(a) >= Savings(b)
         /\ Savings(a) = Savings(b) => Quality(a) <= Quality(b)

\* C15: every quote has low <= center <= high, and its low is not below
\* the minimum fare of 5 USD that floors center.
C15_Original ==
  \A k \in 1..Len(calls) :
    \A q \in {calls[k].page, calls[k].route} :
      /\ q.low <= q.center
      /\ q.center <= q.high
      /\ q.low >= 500000

\* C16: two calls of the fare model with the same distance, duration,
\* surge and penalty return the same quote, whatever the time of each.
C16_Original ==
  \A k \in 1..Len(calls) : \A m \in 1..Len(calls) :
    calls[k].args = calls[m].args =>
      /\ calls[k].page = calls[m].page
      /\ calls[k].route = calls[m].route

\* C18: a request with an absent or non-finite coordinate is rejected: it
\* is answered 400 and no estimate is computed for it.
C18_Original ==
  \A k \in 1..Len(calls) :
    LET raw == {calls[k].req.startLat, calls[k].req.startLng,
                calls[k].req.endLat, calls[k].req.endLng}
    IN (\E x \in raw : ~x.given \/ ~isFinite(Number(x))) =>
         (calls[k].res.status = 400 /\ ~calls[k].res.estimated)

\* the visible route a candidate was sampled from
SourceRoute(c) ==
  VisibleNow[CHOOSE r \in 1..Len(VisibleNow) : VisibleNow[r].label = c.routeIdx]

\* the drive of candidate c is within factor (in hundredths) of its route
Within(c, distFactor, timeFactor) ==
  /\ 100 * c.drive.distance_m <= distFactor * SourceRoute(c).distance
  /\ 100 * c.drive.duration_s <= timeFactor * SourceRoute(c).duration

\* the lowest modeled fare among the regular routes
LowestRegularFare ==
  CHOOSE f \in {RoutePrice(regularRoutes[i]) : i \in 1..Len(regularRoutes)} :
    \A i \in 1..Len(regularRoutes) : f <= RoutePrice(regularRoutes[i])

\* C19: every candidate the strict pass committed is cheaper than the
\* regular route of lowest modeled fare by at least ABS_IMPROVE_MIN and by
\* at least PCT_IMPROVE percent of that fare.
C19_Original ==
  lastEvent.run = "commit" =>
    \A i \in 1..Len(candidates) :
      candidates[i].reason = "strict" =>
        LET improve == LowestRegularFare - CandPrice(candidates[i], surgeProxy)
        IN /\ improve >= ABS_IMPROVE_MIN
           /\ 100 * improve >= PCT_IMPROVE * LowestRegularFare

\* C20: every point the strict pass admitted drives within DIST_FACTOR and
\* TIME_FACTOR of its route; the relaxed pass admitted exactly the points
\* with a driving route within RELAX_DIST and RELAX_TIME of their route,
\* whatever their price.
C20_FactorGates ==
  lastEvent.run = "commit" =>
    \A k \in 1..Len(lastEvent.passes) :
      LET ps == lastEvent.passes[k]
      IN /\ ps.tier = "strict" =>
              \A i \in 1..Len(ps.all) : Within(ps.all[i], DIST_FACTOR, TIME_FACTOR)
         /\ ps.tier = "relaxed" =>
              ps.all = SelectSeq(ps.tried, LAMBDA c : Within(c, RELAX_DIST, RELAX_TIME))

\* next to a strict candidate, the relaxed pass committed one that is less
\* than PCT_IMPROVE percent cheaper than the regular price
C20_Witness ==
  /\ lastEvent.run = "commit"
  /\ \E i \in 1..Len(candidates) :
       candidates[i].reason = "strict" /\ Within(candidates[i], DIST_FACTOR, TIME_FACTOR)
  /\ \E k \in PassesOf("relaxed") : \E i \in AddedBy(k) :
       /\ 100 * (regularPrice - CandPrice(candidates[i], surgeProxy))
            < PCT_IMPROVE * regularPrice
       /\ Within(candidates[i], RELAX_DIST, RELAX_TIME)

\* threshold settings: each factor at its value or lower, each price
\* threshold at its value or higher
Settings ==
  [dist : {80, DIST_FACTOR}, time : {80, TIME_FACTOR},
   pct : {PCT_IMPROVE, 20}, abs : {ABS_IMPROVE_MIN, 400000}]

\* lo is at least as tight as hi
Tighter(lo, hi) ==
  lo.dist <= hi.dist /\ lo.time <= hi.time /\ lo.pct >= hi.pct /\ lo.abs >= hi.abs

\* the strict pass over the points `tried` (the sampled points in range
\* with the driving routes the provider gave) under the thresholds th:
\* and the baseline price bestPrice: the gates, the sort, the caps
StrictPassWith(tried, th, bestPrice) ==
  LET all == SelectSeq(tried, LAMBDA c :
               StrictGate(SourceRoute(c), c.drop,
                          [distance |-> c.drive.distance_m, duration |-> c.drive.duration_s],
                          bestPrice, surgeProxy, th))
      cmp == {p \in Pairs(all) : StrictBefore(p[1], p[2], bestPrice, surgeProxy)}
  IN [all |-> all, capped |-> CapStrict(SortBy(all, cmp))]

\* C17: for the points and provider responses of a committed run, the strict
\* pass under tighter thresholds (a lower distance or time factor, a higher
\* absolute or percentage improvement) admits no more points and keeps no
\* more candidates after its caps than under looser ones; under the
\* thresholds of the code it gives what the run gave.
C17_StrictMonotone ==
  (lastEvent.run = "commit" /\ Len(lastEvent.passes) >= 1) =>
    LET strict == lastEvent.passes[1]
        best   == regularPrice
        counts == {<<th, Len(StrictPassWith(strict.tried, th, best).all),
                         Len(StrictPassWith(strict.tried, th, best).capped)>> :
                     th \in Settings}
    IN /\ StrictPassWith(strict.tried, StrictThresholds, best)
            = [all |-> strict.all, capped |-> strict.kept]
       /\ \A lo \in counts, hi \in counts :
            Tighter(lo[1], hi[1]) => (lo[2] <= hi[2] /\ lo[3] <= hi[3])

\* a committed run whose strict pass kept candidates and keeps fewer under
\* a tighter setting
C17_Witness ==
  /\ lastEvent.run = "commit"
  /\ Len(lastEvent.passes) >= 1
  /\ Len(lastEvent.passes[1].kept) >= 1
  /\ \E lo \in Settings :
       /\ Tighter(lo, StrictThresholds)
       /\ Len(StrictPassWith(lastEvent.passes[1].tried, lo, regularPrice).capped)
            < Len(lastEvent.passes[1].kept)

\* the candidates pass k appended, in the order of the committed list
AppendedBy(k) ==
  LET ps   == lastEvent.passes
      from == IF k = 1 THEN 0 ELSE ps[k - 1].after
  IN SubSeq(candidates, from + 1, ps[k].after)

\* a is not after b in the order of the closest pass: nearer the
\* destination, or as near and not dearer
NotAfter(a, b) ==
  LET ra == haversineMeters(a.drop, drop)
      rb == haversineMeters(b.drop, drop)
  IN ra < rb \/ (ra = rb /\ CandPrice(a, surgeProxy) <= CandPrice(b, surgeProxy))

InRangePoints ==
  UNION { {<<x[1], x[2][k]>> : k \in {m \in 1..Len(x[2]) : RadialOK(x[2][m], drop, radiusM)}} :
            x \in {<<VisibleNow[i].label, TailOf(VisibleNow[i]).pts>> :
                      i \in 1..Len(VisibleNow)} }

\* C22: in every pass of a committed run a point whose driving query gave
\* no route (an error status, an empty route list) made no candidate, and
\* every in-range sampled point of every visible route was still taken to
\* its driving query: it either got a route or is among the failed ones.
C22_DriveFailureSkipsPoint ==
  (lastEvent.run = "commit" /\ Len(lastEvent.passes) >= 1) =>
    \A inRange \in {InRangePoints} : \A k \in 1..Len(lastEvent.passes) :
      LET ps    == lastEvent.passes[k]
          drove == {<<ps.tried[i].routeIdx, ps.tried[i].drop>> : i \in 1..Len(ps.tried)}
      IN /\ ps.failed \cap drove = {}
         /\ \A i \in 1..Len(ps.all) : <<ps.all[i].routeIdx, ps.all[i].drop>> \notin ps.failed
         /\ ps.failed \cup drove = inRange

\* a pass in which a driving query failed and a point evaluated after it
\* was admitted
C22_Witness ==
  /\ lastEvent.run = "commit"
  /\ \E k \in 1..Len(lastEvent.passes) :
       LET ps == lastEvent.passes[k]
       IN /\ ps.failed # {}
          /\ ps.n >= 1
          /\ \E f \in ps.failed :
               /\ f[1] = VisibleNow[1].label
               /\ ps.all[Len(ps.all)].routeIdx = VisibleNow[Len(VisibleNow)].label
               /\ Len(VisibleNow) >= 2

Bare(r) == [distance |-> r.distance, duration |-> r.duration, coords |-> r.coords]

\* regs and alts are the split of the answer `all` of k >= 1 routes: the
\* min(k, REG_MAX) routes of smallest duration in ascending order, then the
\* next min(max(k - REG_MAX, 0), ALT_MAX) in that order, no route twice
SplitOf(all, regs, alts) ==
  LET k      == Len(all)
      chosen == regs \o alts
      left   == {all[i] : i \in 1..k} \ {Bare(chosen[i]) : i \in 1..Len(chosen)}
  IN /\ Len(regs) = Min(k, REG_MAX)
     /\ Len(alts) = Min(Max(k - REG_MAX, 0), ALT_MAX)
     /\ \A i \in 1..Len(chosen) : \E m \in 1..k : all[m] = Bare(chosen[i])
     /\ \A i \in 1..Len(chosen) : \A m \in 1..Len(chosen) :
          i < m => /\ Bare(chosen[i]) # Bare(chosen[m])
                   /\ chosen[i].duration <= chosen[m].duration
     /\ \A i \in 1..Len(chosen) : \A r \in left : chosen[i].duration <= r.duration
     /\ \A i \in 1..Len(regs) : regs[i].kind = "regular"
     /\ \A i \in 1..Len(alts) : alts[i].kind = "alternate"

\* C24: when a build-routes run stores its routes, the regular routes are
\* the (up to REG_MAX) fastest routes of the answer in ascending duration,
\* the alternates the (up to ALT_MAX) next ones in that order; no route is
\* in both, and no alternate is faster than a regular route.
C24_RegularAlternateSplit ==
  [][(Len(routeJobs) = 1 /\ routeJobs[1].pc = "free" /\ lastEvent'.kind = "routesSet")
       => SplitOf(routeJobs[1].routesTraffic, regularRoutes', altRoutes')]_vars

\* routes were stored from an answer of six: two regular routes, three
\* alternates, the slowest route left out
C24_Witness ==
  /\ lastEvent.kind = "routesSet"
  /\ Len(regularRoutes) = REG_MAX
  /\ Len(altRoutes) = ALT_MAX
  /\ regularRoutes[1].duration = 1500
  /\ regularRoutes[1].distance = 12 * CM_PER_MILE
  /\ altRoutes[ALT_MAX].duration = 1800

\* the candidates a run has tried or kept so far
CandsOf(tried, acc) ==
  {tried[i] : i \in 1..Len(tried)} \cup {acc[i] : i \in 1..Len(acc)}

\* C25: the surge proxy stored with the routes is the fastest traffic-aware
\* duration over the free-flow duration, clamped to [SURGE_MIN, SURGE_MAX],
\* and SURGE_MIN when the free-flow query gave no duration; the baseline
\* fare of a run and all its candidates carry the surge the run captured.
C25_SurgeProxy ==
  /\ lastEvent.free.kind = "none" => surgeProxy = SURGE_MIN
  /\ lastEvent.free.kind = "ok" =>
       LET ratio == (1000 * regularRoutes[1].duration) \div lastEvent.free.v
       IN surgeProxy = IF ratio < SURGE_MIN THEN SURGE_MIN
                       ELSE IF ratio > SURGE_MAX THEN SURGE_MAX ELSE ratio
  /\ \A i \in 1..Len(candJobs) :
       LET j == candJobs[i]
       IN /\ j.bestPrice = modeledPriceUSD(cheapestRegular.distance, cheapestRegular.duration,
                                           j.surgeProxy, EndPenalty(cheapestRegular)).center
          /\ \A c \in CandsOf(j.tried, j.acc) : c.surge = j.surgeProxy
  /\ lastEvent.run = "commit" =>
       \A k \in 1..Len(lastEvent.passes) :
         \A c \in CandsOf(lastEvent.passes[k].tried, lastEvent.passes[k].kept) :
           c.surge = lastEvent.inputs.surgeProxy

\* a free-flow duration far below the traffic-aware one: the stored proxy
\* is SURGE_MAX, and a run committed candidates carrying it
C25_Witness ==
  /\ surgeProxy = SURGE_MAX
  /\ lastEvent.run = "commit"
  /\ lastEvent.inputs.surgeProxy = SURGE_MAX
  /\ Len(candidates) >= 1
  /\ candidates[1].surge = SURGE_MAX

\* the calls of one of the pure functions in the log
CallsOf(fn) == {k \in 1..Len(calls) : calls[k].fn = fn}

\* the result of a sampleTail call on n coordinates: no exception, at most
\* count points, each found at an index of startIdx..n-2 and nowhere at
\* n-1, in route order, with pairwise different toFixed(5) keys
SampledFromTail(call) ==
  LET n     == Len(call.coords)
      lo    == Max(0, ((n * (100 - call.fraction)) \div 100) - 1)
      pts   == call.res.pts
      at(m) == {i \in 0..(n - 1) : LatLngOf(call.coords[i + 1]) = pts[m]}
  IN /\ ~call.res.threw
     /\ Len(pts) <= call.count
     /\ \A m \in 1..Len(pts) : at(m) # {} /\ at(m) \subseteq lo..(n - 2)
     /\ \A a \in 1..Len(pts) : \A b \in 1..Len(pts) :
          a < b => /\ \A i \in at(a) : \A k \in at(b) : i < k
                   /\ Key5(pts[a]) # Key5(pts[b])

\* C26: for a geometry of n >= 1 coordinates sampleTail returns at most
\* count points, each from an index in [max(0, floor(n(1-fraction))-1), n-2],
\* never the final one, in route order, no two with the same toFixed(5) key.
C26_Original ==
  \A k \in CallsOf("sampleTail") :
    Len(calls[k].coords) >= 1 => SampledFromTail(calls[k])

\* the zones whose box holds p, edges included
ZonesAt(p) ==
  {i \in 1..Len(ZONES) :
     /\ p.lat \in ZONES[i].box.minLat..ZONES[i].box.maxLat
     /\ p.lng \in ZONES[i].box.minLng..ZONES[i].box.maxLng}

RECURSIVE PenaltyOver(_)
PenaltyOver(zs) ==
  IF zs = {} THEN 0
  ELSE LET i == CHOOSE x \in zs : TRUE
       IN ZONES[i].penaltyUSD + PenaltyOver(zs \ {i})

\* C27: zonePenaltyUSD(p) is the sum of penaltyUSD over exactly the zones
\* whose box contains p, edges inclusive: 0 when no box contains it.
C27_ZonePenalty ==
  \A k \in CallsOf("zonePenaltyUSD") :
    calls[k].res = PenaltyOver(ZonesAt(calls[k].p))

\* a point on the corner of the Downtown box gets its penalty
C27_Witness ==
  \E k \in CallsOf("zonePenaltyUSD") :
    /\ calls[k].p = Pt(ZONES[1].box.maxLat, ZONES[1].box.minLng)
    /\ calls[k].res = ZONES[1].penaltyUSD

\* the provider calls a run has issued and not yet got back, as (route,
\* point, query): a run awaits the one call its pc names
InFlight(j) ==
  IF j.pc \in {"walk", "drive"} THEN {<<j.ri, j.pi, j.pc>>} ELSE {}

\* C28: within a tier the queries of a point are issued without waiting
\* for the responses of the previous point: while a run awaits a call of
\* one point, a call of every later in-range point of the same tail is in
\* flight as well.
C28_Original ==
  \A i \in 1..Len(candJobs) :
    LET j == candJobs[i]
    IN j.pc \in {"walk", "drive"} =>
         \A q \in (j.pi + 1)..Len(j.tailPts) :
           RadialOK(j.tailPts[q], j.drop, j.radiusM) =>
             \E c \in InFlight(j) : c[1] = j.ri /\ c[2] = q

\* the tiers in the order of the source
TierOrder == <<"strict", "relaxed", "closest">>

\* C29: a run visits the tiers in the order strict, relaxed, closest, each
\* at most once and never an earlier one again, and ends by its guarded
\* commit (it stores its list or finds itself stale) after at most three
\* passes.
C29_Original ==
  /\ \A i \in 1..Len(candJobs) :
       LET j == candJobs[i]
       IN /\ Len(j.passes) < Len(TierOrder)
          /\ \A k \in 1..Len(j.passes) : j.passes[k].tier = TierOrder[k]
          /\ j.tier = TierOrder[Len(j.passes) + 1]
  /\ Len(lastEvent.passes) <= Len(TierOrder)
  /\ \A k \in 1..Len(lastEvent.passes) : lastEvent.passes[k].tier = TierOrder[k]
  /\ candJobs = <<>> => lastEvent.run \in {"commit", "discard"}

\* the venues of the two answers of a call in answer order, and the
\* positions of the distinct ones: named, located, and with no earlier one
\* of the same label and the same coordinates rounded to 6 decimals
Found(call) ==
  (IF call.sugRes.ok THEN call.sugRes.list ELSE <<>>)
  \o (IF call.seaRes.ok THEN call.seaRes.list ELSE <<>>)
IsVenue(v) == v.name # "" /\ v.located
SameVenue(a, b) ==
  /\ a.name = b.name
  /\ toFixed(a.lat, 10) = toFixed(b.lat, 10)
  /\ toFixed(a.lng, 10) = toFixed(b.lng, 10)
DistinctAt(all) ==
  {i \in 1..Len(all) :
     /\ IsVenue(all[i])
     /\ \A k \in 1..(i - 1) : IsVenue(all[k]) => ~SameVenue(all[k], all[i])}

\* C30: whatever the limit parameter and the upstream outcomes, the limit
\* the handler works with is a number in 1..15 and the response holds
\* exactly the first min(limit, d) of the d distinct venues found.
C30_Original ==
  \A c \in 1..Len(calls) :
    calls[c].res.called =>
      LET all   == Found(calls[c])
          dist  == DistinctAt(all)
          limit == calls[c].res.asked
          feats == calls[c].res.features
          nth(m) == CHOOSE i \in dist : Cardinality({k \in dist : k <= i}) = m
      IN /\ limit.finite
         /\ limit.v \in 1..15
         /\ Len(feats) = Min(limit.v, Cardinality(dist))
         /\ \A m \in 1..Len(feats) :
              /\ feats[m].label = all[nth(m)].name
              /\ feats[m].lat = all[nth(m)].lat
              /\ feats[m].lng = all[nth(m)].lng

====
